---- MODULE Spec2Model ----
(***************************************************************************)
(* user-service: the RabbitMQ client's consumption loop                    *)
(* (RabbitMQClient.Consume) together with the broker queue it reads from.  *)
(*                                                                         *)
(* The program side is translated from the Go source statement by          *)
(* statement; the broker side (queue, unacknowledged deliveries, effect of *)
(* basic.ack / basic.nack, channel closure) is the AMQP 0-9-1 behaviour    *)
(* the calls in the source rely on.  A delivery is identified by the       *)
(* message it carries: the broker never has two outstanding deliveries of  *)
(* one message.                                                            *)
(***************************************************************************)
EXTENDS Integers, Sequences, FiniteSets, TLC

\* ------------------------------------------------------------------ bounds
NumMsgs == 3
MaxDeliveries == 4

Msgs == 1..NumMsgs
NoMsg == 0
\* the observation counters stop counting one past the delivery bound
MaxCount == MaxDeliveries + 1

MaxReqs == 2
MaxPublishes == 3
NumQMsgs == 2
MaxTag == 4
Loops == {1, 2}
QMsgs == 1..NumQMsgs
NoTag == 0
NumEmails == 2
MaxCreates == 3
Emails == 1..NumEmails
NoEmail == 0
NoStatus == 0
MaxConnects == 3
NoPool == 0
NoLoop == 0
Reqs == 1..MaxReqs
Backends == {"postgres", "rabbitmq"}

\* ------------------------------------------------------- program constants
\* third argument of r.channel.Consume: auto-ack
AutoAckOn == TRUE
AutoAck == FALSE

\* second argument of msg.Nack: requeue
NackNoRequeue == FALSE
NackRequeue == TRUE

\* values Consume can return; HandlerErr is the handler's error, which no
\* return statement of Consume produces
ErrRegister == "failed to register consumer"
ErrChannelClosed == "message channel closed"
CtxErr == "ctx.Err()"
ErrMarshal == "failed to marshal message"
ErrPublish == "failed to publish message"
HandlerErr == "handler error"
NotReturned == "running"

VARIABLES
    queue,         \* broker: message -> "none" | "ready" | "unacked" | "gone"
    channelOpen,   \* r.channel is open
    subscribed,    \* r.channel.Consume succeeded: the consumer is registered
    noAck,         \* the auto-ack flag the consumer was registered with
    msgs,          \* the delivery channel: deliveries not yet received
    ctxDone,       \* ctx.Done() is closed
    pc,            \* position of Consume: "subscribe" | "select" | "handler" | "settle" | "return"
    msg,           \* the delivery the loop holds (NoMsg: none, or the zero value)
    err,           \* what the handler returned: "none" | "ok" | "fail"
    ret,           \* what Consume returned
    \* observations
    calls,         \* message -> the acknowledgment calls made on its current delivery
    outcome,       \* message -> handler outcome for its current delivery
    removedBy,     \* message -> how the broker came to drop it: "none" | "ack" | "nack" | "autoack"
    inflight,      \* deliveries whose handler began and that are not yet acked or nacked
    nDeliv, nRecv, nAck, nNack,   \* counts of deliveries, receives, Ack calls, Nack calls
    nSub,          \* subscription attempts
    anyFail,       \* some handler call returned a failure
    cancelledAt    \* pc at the moment ctx was cancelled ("never" before)

\* the consumption loop and its broker queue
consumeVars == <<queue, channelOpen, subscribed, noAck, msgs, ctxDone, pc, msg, err, ret,
                 calls, outcome, removedBy, inflight, nDeliv, nRecv, nAck, nNack, nSub,
                 anyFail, cancelledAt>>

VARIABLES
    conn,          \* r.conn, the broker connection: "none" | "open" | "closed"
    pg,            \* the store's connection pool: "none" | "open" | "closed"
    \* NewDatabaseConnections
    ndcPc,         \* "idle" | "postgres" | "rabbitmq" | "return" | "done"
    opens,         \* the opens attempted, in order: [backend, ok]
    registry,      \* the *DatabaseConnections returned: "none" (not yet) | "nil" | "set"
    ndcErr         \* the error returned: "none" (not yet) | "nil" | "postgres" | "rabbitmq"

VARIABLES
    \* the command (runServer or runMigration)
    cmd,           \* "server" | "migration"
    cmdPc,         \* "connect" | "wait" | "shutdown" | "migrate" | "closing" | "exit"
    srv,           \* the HTTP server: "none" | "starting" | "listening" | "draining" | "closed"
    exitCode,      \* "none" while running, then 0 (returned) or 1 (log.Fatal, or an error returned)
    \* DatabaseConnections.Close
    closePc,       \* "idle" | "rabbitmq" | "rabbitmq_conn" | "postgres" | "return" | "done"
    closeTried,    \* the backends whose Close was called, in order
    closeFailed,   \* the backends whose Close returned an error
    errs,          \* the local errs of Close: the backends named in it, in order
    closeRet,      \* "none" (not yet) | [nil, names]: nil, or the backends the error names
    nClose         \* calls of DatabaseConnections.Close

VARIABLES
    \* HTTP requests in flight (readiness checks and user queries)
    req,           \* request -> "idle" | "hc_pg" | "hc_pg_wait" | "hc_rmq" | "hc_ret" | "query"
    checks,        \* request -> the map HealthCheck is filling: backend -> "unset" | "nil" | "err"
    probe,         \* request -> what each backend's probe found: "none" | "ok" | "fail"
    resp,          \* request -> the readiness response written: [code, status, checks]
    usedClosed     \* the backends on which an operation began after their Close was called

VARIABLES
    \* RabbitMQClient.Publish
    pubPc,         \* "idle" | "marshal" | "publish" | "return"
    pubMsg,        \* the message of the current call
    attempts,      \* calls of channel.PublishWithContext made by the current call
    accepted,      \* whether an attempt of the current call succeeded
    pubRet,        \* "none" (not yet) | "nil" | the error returned
    nPub           \* calls of Publish

VARIABLES
    \* several Consume calls on one client, each on its own queue
    tOpen,         \* r.channel is open
    tq,            \* loop -> message -> "ready" | "unacked" | "gone"
    tbuf,          \* loop -> the deliveries waiting on that call's msgs
    tpc,           \* loop -> "select" | "handler" | "settle" | "return"
    tmsg,          \* loop -> the message being handled (NoMsg: none)
    terr,          \* loop -> the handler's result: "none" | "nil" | "fail"
    tagOf,         \* loop -> message -> the delivery tag of its open delivery (NoTag: none)
    nextTag,       \* the channel's delivery-tag counter
    ackedBy        \* loop -> message -> the loop whose Ack removed it (NoLoop: none)

VARIABLES
    \* userUseCasesImpl.CreateUser on the GORM repository
    stored,        \* the emails of the rows of the users table, in insertion order
    cuPc,          \* "idle" | "parse" | "check" | "entity" | "create" | "done"
    cuEmail,       \* the email of the request (NoEmail: none)
    cuRet,         \* "none" | "nil" | the Code of the error returned
    cuStatus,      \* the HTTP status the handler answers (NoStatus: none yet)
    atCall,        \* the users table when the call began
    nCreate        \* calls of CreateUser

VARIABLES
    \* NewGormConnection
    gPc,           \* "idle" | "open" | "db" | "ping" | "return"
    gPools,        \* the pools created so far: "open" | "closed"
    gRets,         \* the results of the calls so far: [err, pool] records
    gCur           \* the index in gPools of the current call's pool (NoPool: none)

twoVars == <<tOpen, tq, tbuf, tpc, tmsg, terr, tagOf, nextTag, ackedBy>>
userVars == <<stored, cuPc, cuEmail, cuRet, cuStatus, atCall, nCreate>>
gormVars == <<gPc, gPools, gRets, gCur>>
ndcVars == <<ndcPc, opens, registry, ndcErr>>
pubVars == <<pubPc, pubMsg, attempts, accepted, pubRet, nPub>>
cmdVars == <<cmd, cmdPc, srv, exitCode>>
closeVars == <<closePc, closeTried, closeFailed, errs, closeRet, nClose>>
reqVars == <<req, checks, probe, resp, usedClosed>>

\* the connection registry, the commands and the HTTP side
\* everything but the variables of the later sections
baseVars == <<consumeVars, conn, pg, ndcVars, cmdVars, closeVars, reqVars, pubVars>>

\* the variables of the later sections
auxVars == <<twoVars, userVars, gormVars>>

svcVars == <<conn, pg, ndcVars, cmdVars, closeVars, reqVars, pubVars, auxVars>>

vars == <<consumeVars, svcVars>>

loopVars == <<pc, msg, err, ret>>
obsVars == <<calls, outcome, inflight, nRecv, nAck, nNack, nSub, anyFail>>

Bump(c) == IF c < MaxCount THEN c + 1 ELSE c

\* an attempt to open a backend and whether it succeeded
Opened(b, ok) == [backend |-> b, ok |-> ok]

\* no response has been written
NoResponse == [code |-> "none", status |-> "none", checks |-> <<>>]

\* no request is being served
ReqInit ==
    /\ req = [r \in Reqs |-> "idle"]
    /\ checks = [r \in Reqs |-> [b \in Backends |-> "unset"]]
    /\ probe = [r \in Reqs |-> [b \in Backends |-> "none"]]
    /\ resp = [r \in Reqs |-> NoResponse]
    /\ usedClosed = {}

\* no Publish call has been made
PubInit ==
    /\ pubPc = "idle"
    /\ pubMsg = NoMsg
    /\ attempts = 0
    /\ accepted = FALSE
    /\ pubRet = "none"
    /\ nPub = 0

\* every queue holds its messages, every loop is subscribed and waits
TwoInit ==
    /\ tOpen = TRUE
    /\ tq = [l \in Loops |-> [m \in QMsgs |-> "ready"]]
    /\ tbuf = [l \in Loops |-> <<>>]
    /\ tpc = [l \in Loops |-> "select"]
    /\ tmsg = [l \in Loops |-> NoMsg]
    /\ terr = [l \in Loops |-> "none"]
    /\ tagOf = [l \in Loops |-> [m \in QMsgs |-> NoTag]]
    /\ nextTag = 1
    /\ ackedBy = [l \in Loops |-> [m \in QMsgs |-> NoLoop]]

\* the users table is empty and CreateUser has not been called
UserInit ==
    /\ stored = <<>>
    /\ cuPc = "idle"
    /\ cuEmail = NoEmail
    /\ cuRet = "none"
    /\ cuStatus = NoStatus
    /\ atCall = <<>>
    /\ nCreate = 0

\* NewGormConnection has not been called
GormInit ==
    /\ gPc = "idle"
    /\ gPools = <<>>
    /\ gRets = <<>>
    /\ gCur = NoPool

AuxInit == TwoInit /\ UserInit /\ GormInit

\* the client is connected and nothing else of the service is running
SvcInit ==
    /\ ReqInit
    /\ PubInit
    /\ AuxInit
    /\ conn = "open"
    /\ pg = "open"
    /\ ndcPc = "done" /\ opens = <<Opened("postgres", TRUE), Opened("rabbitmq", TRUE)>>
    /\ registry = "set" /\ ndcErr = "nil"
    /\ cmd = "server" /\ cmdPc = "wait" /\ srv = "listening" /\ exitCode = "none"
    /\ closePc = "idle" /\ closeTried = <<>> /\ closeFailed = {} /\ errs = <<>>
    /\ closeRet = "none" /\ nClose = 0

Init ==
    /\ SvcInit
    /\ queue = [m \in Msgs |-> "none"]
    /\ channelOpen = TRUE
    /\ subscribed = FALSE
    /\ noAck = FALSE
    /\ msgs = <<>>
    /\ ctxDone = FALSE
    /\ pc = "subscribe"
    /\ msg = NoMsg
    /\ err = "none"
    /\ ret = NotReturned
    /\ calls = [m \in Msgs |-> <<>>]
    /\ outcome = [m \in Msgs |-> "none"]
    /\ removedBy = [m \in Msgs |-> "none"]
    /\ inflight = {}
    /\ nDeliv = 0 /\ nRecv = 0 /\ nAck = 0 /\ nNack = 0 /\ nSub = 0
    /\ anyFail = FALSE
    /\ cancelledAt = "never"

\* ------------------------------------------------------------------ broker

\* The channel goes down: every unacknowledged delivery returns to the queue,
\* deliveries not yet handed to the consumer are dropped, and the delivery
\* channel is closed.
Requeued(q) == [m \in Msgs |-> IF q[m] = "unacked" THEN "ready" ELSE q[m]]

\* the delivery channel returned by r.channel.Consume is closed
MsgsClosed == subscribed /\ ~channelOpen

\* A producer puts a message in the queue.
Arrive ==
    /\ \E m \in Msgs :
         /\ queue[m] = "none"
         /\ queue' = [queue EXCEPT ![m] = "ready"]
    /\ UNCHANGED <<channelOpen, subscribed, noAck, msgs, ctxDone, removedBy, cancelledAt, nDeliv>>
    /\ UNCHANGED loopVars
    /\ UNCHANGED obsVars
    /\ UNCHANGED svcVars

\* The broker hands a ready message to the registered consumer. Without
\* auto-ack it keeps the message as unacknowledged; with auto-ack it is
\* dropped on delivery.
Push(m) ==
    /\ subscribed /\ channelOpen
    /\ queue[m] = "ready"
    /\ msgs' = Append(msgs, m)
    /\ queue' = [queue EXCEPT ![m] = IF noAck THEN "gone" ELSE "unacked"]
    /\ removedBy' = [removedBy EXCEPT ![m] = IF noAck THEN "autoack" ELSE @]
    /\ calls' = [calls EXCEPT ![m] = <<>>]
    /\ outcome' = [outcome EXCEPT ![m] = "none"]
    /\ nDeliv' = Bump(nDeliv)
    /\ UNCHANGED <<channelOpen, subscribed, noAck, ctxDone, cancelledAt>>
    /\ UNCHANGED loopVars
    /\ UNCHANGED <<inflight, nRecv, nAck, nNack, nSub, anyFail>>
    /\ UNCHANGED svcVars

Deliver ==
    /\ nDeliv < MaxDeliveries
    /\ \E m \in Msgs : Push(m)

\* Broker-side close or network drop.
ChannelClosed ==
    /\ channelOpen
    /\ channelOpen' = FALSE
    /\ queue' = Requeued(queue)
    /\ msgs' = <<>>
    /\ UNCHANGED <<subscribed, noAck, ctxDone, removedBy, cancelledAt, nDeliv>>
    /\ UNCHANGED loopVars
    /\ UNCHANGED obsVars
    /\ UNCHANGED svcVars

\* The governing context is cancelled.
Cancel ==
    /\ ~ctxDone
    /\ ctxDone' = TRUE
    /\ cancelledAt' = pc
    /\ UNCHANGED <<queue, channelOpen, subscribed, noAck, msgs, removedBy, nDeliv>>
    /\ UNCHANGED loopVars
    /\ UNCHANGED obsVars
    /\ UNCHANGED svcVars


\* ------------------------------------------------- acknowledgment calls

Ack == [op |-> "Ack", requeue |-> FALSE]
Nack(requeue) == [op |-> "Nack", requeue |-> requeue]

\* One msg.Ack / msg.Nack call on delivery m, on the state
\* st = [queue, open, msgs, removedBy, calls, nAck, nNack]. The call is
\* always recorded; its error result is discarded by the caller. On a closed
\* channel (or on the zero-value delivery) it changes nothing at the broker;
\* on a delivery the broker does not hold as unacknowledged the broker
\* raises a channel exception, which closes the channel.
ApplyCall(st, m, c) ==
    LET counted == [st EXCEPT !.nAck = IF c.op = "Ack" THEN Bump(@) ELSE @,
                              !.nNack = IF c.op = "Nack" THEN Bump(@) ELSE @]
    IN  IF m \notin Msgs THEN counted
        ELSE LET logged == [counted EXCEPT !.calls[m] = Append(@, c)]
             IN  IF ~st.open THEN logged
                 ELSE IF st.queue[m] # "unacked"
                      THEN [logged EXCEPT !.open = FALSE,
                                          !.queue = Requeued(@),
                                          !.msgs = <<>>]
                 ELSE IF c.op = "Ack"
                      THEN [logged EXCEPT !.queue[m] = "gone", !.removedBy[m] = "ack"]
                 ELSE IF c.requeue
                      THEN [logged EXCEPT !.queue[m] = "ready"]
                 ELSE [logged EXCEPT !.queue[m] = "gone", !.removedBy[m] = "nack"]

RECURSIVE ApplyCalls(_, _, _)
ApplyCalls(st, m, cs) ==
    IF cs = <<>> THEN st
    ELSE ApplyCalls(ApplyCall(st, m, Head(cs)), m, Tail(cs))

\* ------------------------------------------------------ RabbitMQClient.Consume

\* the error of r.channel.Consume is dropped and the loop is entered
SubscribeIgnoringError ==
    /\ pc = "subscribe"
    /\ nSub' = Bump(nSub)
    /\ \E ok \in BOOLEAN :
         /\ ok => channelOpen
         /\ subscribed' = (subscribed \/ ok)
         /\ noAck' = IF ok THEN AutoAck ELSE noAck
    /\ pc' = "select"
    /\ UNCHANGED <<queue, channelOpen, msgs, ctxDone, msg, err, ret, removedBy, cancelledAt, nDeliv>>
    /\ UNCHANGED <<calls, outcome, inflight, nRecv, nAck, nNack, anyFail>>
    /\ UNCHANGED svcVars

\* msgs, err := r.channel.Consume(queue, "", false, ...); a non-nil err returns
\* at once. The request fails on a closed channel and may be refused by the
\* broker.
Subscribe ==
    /\ pc = "subscribe"
    /\ nSub' = Bump(nSub)
    /\ \E ok \in BOOLEAN :
         /\ ok => channelOpen
         /\ IF ok
            THEN /\ subscribed' = TRUE
                 /\ noAck' = AutoAck
                 /\ pc' = "select"
                 /\ ret' = ret
            ELSE /\ pc' = "return"
                 /\ ret' = ErrRegister
                 /\ UNCHANGED <<subscribed, noAck>>
    /\ UNCHANGED <<queue, channelOpen, msgs, ctxDone, msg, err, removedBy, cancelledAt, nDeliv>>
    /\ UNCHANGED <<calls, outcome, inflight, nRecv, nAck, nNack, anyFail>>
    /\ UNCHANGED svcVars

\* the handler is started without waiting for it (go handler(...))
ReceiveAsync ==
    /\ pc = "select"
    /\ msgs # <<>>
    /\ msg' = Head(msgs)
    /\ msgs' = Tail(msgs)
    /\ inflight' = inflight \cup {Head(msgs)}
    /\ nRecv' = Bump(nRecv)
    /\ UNCHANGED <<queue, channelOpen, subscribed, noAck, ctxDone, pc, err, ret, removedBy,
                   cancelledAt, nDeliv>>
    /\ UNCHANGED <<calls, outcome, nAck, nNack, nSub, anyFail>>
    /\ UNCHANGED svcVars

\* case msg, ok := <-msgs with ok true, then handler(ctx, msg.Body) is entered
Receive ==
    /\ pc = "select"
    /\ msgs # <<>>
    /\ msg' = Head(msgs)
    /\ msgs' = Tail(msgs)
    /\ pc' = "handler"
    /\ inflight' = inflight \cup {Head(msgs)}
    /\ nRecv' = Bump(nRecv)
    /\ UNCHANGED <<queue, channelOpen, subscribed, noAck, ctxDone, err, ret, removedBy,
                   cancelledAt, nDeliv>>
    /\ UNCHANGED <<calls, outcome, nAck, nNack, nSub, anyFail>>
    /\ UNCHANGED svcVars

\* the ok result is not looked at: the zero-value delivery is handled
RecvClosedUnchecked ==
    /\ pc = "select"
    /\ MsgsClosed
    /\ msg' = NoMsg
    /\ pc' = "handler"
    /\ nRecv' = Bump(nRecv)
    /\ UNCHANGED <<queue, channelOpen, subscribed, noAck, msgs, ctxDone, err, ret, removedBy,
                   cancelledAt, nDeliv>>
    /\ UNCHANGED <<calls, outcome, inflight, nAck, nNack, nSub, anyFail>>
    /\ UNCHANGED svcVars

\* the closed delivery channel ends the loop quietly: return nil
RecvClosedReturnsNil ==
    /\ pc = "select"
    /\ MsgsClosed
    /\ pc' = "return"
    /\ ret' = "nil"
    /\ UNCHANGED <<queue, channelOpen, subscribed, noAck, msgs, ctxDone, msg, err, removedBy,
                   cancelledAt, nDeliv>>
    /\ UNCHANGED obsVars
    /\ UNCHANGED svcVars

\* case msg, ok := <-msgs with ok false
RecvClosed ==
    /\ pc = "select"
    /\ MsgsClosed
    /\ pc' = "return"
    /\ ret' = ErrChannelClosed
    /\ UNCHANGED <<queue, channelOpen, subscribed, noAck, msgs, ctxDone, msg, err, removedBy,
                   cancelledAt, nDeliv>>
    /\ UNCHANGED obsVars
    /\ UNCHANGED svcVars

\* err := handler(ctx, msg.Body) returns
HandlerReturn ==
    /\ pc = "handler"
    /\ \E e \in {"ok", "fail"} :
         /\ err' = e
         /\ outcome' = IF msg \in Msgs THEN [outcome EXCEPT ![msg] = e] ELSE outcome
         /\ anyFail' = (anyFail \/ e = "fail")
    /\ pc' = "settle"
    /\ UNCHANGED <<queue, channelOpen, subscribed, noAck, msgs, ctxDone, msg, ret, removedBy,
                   cancelledAt, nDeliv>>
    /\ UNCHANGED <<calls, inflight, nRecv, nAck, nNack, nSub>>
    /\ UNCHANGED svcVars

\* the else is missing: a failed delivery is nacked and then acked
SettleCallsFallThrough(e) ==
    IF e = "fail" THEN <<Nack(NackRequeue), Ack>> ELSE <<Ack>>

\* the condition is inverted: err == nil is taken for the failure
SettleCallsInverted(e) ==
    IF e = "ok" THEN <<Nack(NackRequeue)>> ELSE <<Ack>>

\* if err != nil { msg.Nack(false, true) } else { msg.Ack(false) }
SettleCalls(e) ==
    IF e = "fail" THEN <<Nack(NackRequeue)>> ELSE <<Ack>>

\* the handler's error is returned from Consume
AfterSettleReturnErr(e) ==
    IF e = "fail" THEN [pc |-> "return", ret |-> HandlerErr]
    ELSE [pc |-> "select", ret |-> NotReturned]

\* both branches fall out of the select and the for loop iterates
AfterSettle(e) == [pc |-> "select", ret |-> NotReturned]

Settle ==
    /\ pc = "settle"
    /\ LET st == ApplyCalls([queue |-> queue, open |-> channelOpen, msgs |-> msgs,
                             removedBy |-> removedBy, calls |-> calls,
                             nAck |-> nAck, nNack |-> nNack],
                            msg, SettleCalls(err))
       IN  /\ queue' = st.queue
           /\ channelOpen' = st.open
           /\ msgs' = st.msgs
           /\ removedBy' = st.removedBy
           /\ calls' = st.calls
           /\ nAck' = st.nAck
           /\ nNack' = st.nNack
    /\ inflight' = inflight \ {msg}
    /\ pc' = AfterSettle(err).pc
    /\ ret' = AfterSettle(err).ret
    /\ msg' = NoMsg
    /\ err' = "none"
    /\ UNCHANGED <<subscribed, noAck, ctxDone, cancelledAt, nDeliv>>
    /\ UNCHANGED <<outcome, nRecv, nSub, anyFail>>
    /\ UNCHANGED svcVars

\* cancellation pre-empts the handler and the acknowledgment
CtxDoneAbrupt ==
    /\ pc \in {"select", "handler", "settle"}
    /\ ctxDone
    /\ pc' = "return"
    /\ ret' = CtxErr
    /\ UNCHANGED <<queue, channelOpen, subscribed, noAck, msgs, ctxDone, msg, err, removedBy,
                   cancelledAt, nDeliv>>
    /\ UNCHANGED obsVars
    /\ UNCHANGED svcVars

\* a bare break leaves the select only: the for loop goes round again
CtxDoneBreak ==
    /\ pc = "select"
    /\ ctxDone
    /\ UNCHANGED vars

\* case <-ctx.Done(): return ctx.Err()
CtxDone ==
    /\ pc = "select"
    /\ ctxDone
    /\ pc' = "return"
    /\ ret' = CtxErr
    /\ UNCHANGED <<queue, channelOpen, subscribed, noAck, msgs, ctxDone, msg, err, removedBy,
                   cancelledAt, nDeliv>>
    /\ UNCHANGED obsVars
    /\ UNCHANGED svcVars

\* ---------------------------------------------------------- specifications

Next ==
    \/ Arrive
    \/ Deliver
    \/ ChannelClosed
    \/ Cancel
    \/ Subscribe
    \/ Receive
    \/ RecvClosed
    \/ HandlerReturn
    \/ Settle
    \/ CtxDone

Spec == Init /\ [][Next]_vars

\* The broker redelivers without limit (the counters stop at MaxCount).
Redeliver == \E m \in Msgs : Push(m)

FairNext ==
    \/ Arrive
    \/ Redeliver
    \/ ChannelClosed
    \/ Cancel
    \/ Subscribe
    \/ Receive
    \/ RecvClosed
    \/ HandlerReturn
    \/ Settle
    \/ CtxDone

\* Every step of the loop's goroutine is eventually taken (the handler
\* terminates); select chooses uniformly among its ready cases, so a case
\* that is ready again and again is eventually chosen.
FairSpec ==
    /\ Init /\ [][FairNext]_vars
    /\ WF_vars(Subscribe)
    /\ WF_vars(HandlerReturn)
    /\ WF_vars(Settle)
    /\ WF_vars(RecvClosed)
    /\ SF_vars(CtxDone)

\* ------------------------------------------------------------ properties

\* the loop holds a delivery it has not finished with
Processing == pc \in {"handler", "settle"}
\* the current delivery of m was received by the loop
Received(m) == m \in inflight \/ outcome[m] # "none"
\* calls made so far by a loop that is (or is not) in the middle of a delivery
Settled == IF Processing THEN nRecv - 1 ELSE nRecv

\* C1: every delivery Consume received gets exactly one acknowledgment call
\* (Ack or Nack): none while its handler is still being processed, exactly
\* one from then on, never two, whatever the handler outcome and however
\* cancellation and channel closure interleave; in total there are as many
\* calls as deliveries received.
C1_ExactlyOneAckOrNack ==
    /\ \A m \in Msgs :
         /\ Len(calls[m]) <= 1
         /\ ~Received(m) => calls[m] = <<>>
         /\ Received(m) /\ ~(Processing /\ msg = m) => Len(calls[m]) = 1
         /\ Processing /\ msg = m => calls[m] = <<>>
    /\ nAck + nNack = Settled

C1_Witness ==
    /\ pc = "return"
    /\ ctxDone /\ ~channelOpen
    /\ nAck >= 1 /\ nNack >= 1
    /\ \E m \in Msgs : Received(m) /\ Len(calls[m]) = 1

\* C2: the consumer is never registered with auto-ack, and a message the
\* broker no longer holds was removed by an Ack made after the handler
\* returned success for that delivery; every other message is still in the
\* queue (not yet published, ready, or unacknowledged).
C2_RemovedOnlyByAckAfterSuccess ==
    /\ subscribed => ~noAck
    /\ \A m \in Msgs :
         \/ queue[m] \in {"none", "ready", "unacked"}
         \/ /\ queue[m] = "gone"
            /\ removedBy[m] = "ack"
            /\ outcome[m] = "ok"
            /\ calls[m] = <<Ack>>

C2_Witness ==
    /\ ~channelOpen
    /\ cancelledAt = "handler"
    /\ \E m, k \in Msgs :
         /\ queue[m] = "gone"
         /\ queue[k] = "ready" /\ outcome[k] = "fail"

\* C3: as long as every handler call returned success there is no Nack call
\* and one Ack call per delivery the loop has finished with; once the loop
\* has received everything the broker delivered, that is one Ack per
\* delivered message.
C3_AllSuccessAllAcked ==
    ~anyFail =>
        /\ nNack = 0
        /\ nAck = Settled
        /\ (~Processing /\ msgs = <<>> /\ channelOpen) => nAck = nDeliv

C3_Witness ==
    /\ ~anyFail
    /\ pc = "select"
    /\ nDeliv = NumMsgs
    /\ nAck = NumMsgs

\* C4: a delivery whose handler returned a failure is nacked with
\* requeue=true and gets no Ack; no Nack is ever made without requeue.
C4_FailureNackedWithRequeue ==
    \A m \in Msgs :
        /\ \A i \in 1..Len(calls[m]) :
             calls[m][i].op = "Nack" => calls[m][i].requeue = TRUE
        /\ (outcome[m] = "fail" /\ ~(Processing /\ msg = m)) =>
             calls[m] = <<[op |-> "Nack", requeue |-> TRUE]>>

C4_Witness ==
    \E m \in Msgs :
        /\ outcome[m] = "fail"
        /\ calls[m] = <<[op |-> "Nack", requeue |-> TRUE]>>
        /\ queue[m] = "ready"

\* C5: at most one handler invocation is in progress; a handler begins only
\* when no earlier delivery is still unacknowledged by the loop, and it is
\* the handler of the oldest delivery waiting in the delivery channel.
C5_SerialInOrder ==
    /\ [](Cardinality(inflight) <= 1)
    /\ [][inflight' \ inflight # {} =>
            /\ inflight = {}
            /\ nAck + nNack = nRecv
            /\ inflight' = {Head(msgs)}]_vars

C5_Witness ==
    /\ pc = "handler"
    /\ nRecv = 2
    /\ nAck + nNack = 1
    /\ msgs # <<>>

\* C6 (as claimed, on a subscription whose channel stays open): once ctx is
\* cancelled no handler invocation begins, and when Consume then returns it
\* returns ctx.Err().
C6_NoPullAfterCancel ==
    [][(ctxDone /\ subscribed /\ channelOpen) =>
         /\ ~(pc # "handler" /\ pc' = "handler")
         /\ (pc # "return" /\ pc' = "return") => ret' = CtxErr]_vars

\* C7: when ctx was cancelled while a handler invocation was in flight,
\* Consume has returned only if that handler finished and its delivery was
\* acked or nacked.
C7_ReturnAfterInFlightSettled ==
    (pc = "return" /\ cancelledAt \in {"handler", "settle"}) =>
        /\ inflight = {}
        /\ nRecv >= 1
        /\ nAck + nNack = nRecv
        /\ \A m \in Msgs : Received(m) => outcome[m] # "none" /\ Len(calls[m]) = 1

C7_Witness ==
    /\ pc = "return"
    /\ cancelledAt = "handler"
    /\ ret = CtxErr

\* C8: once ctx is cancelled, Consume eventually returns, however many
\* deliveries keep arriving.
C8_CancelLeadsToReturn == ctxDone ~> (pc = "return")

C8_Witness ==
    /\ pc = "return"
    /\ ret = CtxErr
    /\ cancelledAt = "select"
    /\ nRecv = MaxCount
    /\ msgs # <<>>

\* C9: once the delivery channel is closed, no handler invocation begins, no
\* subscription is attempted, a return carries an error, and Consume does
\* return.
C9_ClosedChannelStops ==
    /\ [][MsgsClosed =>
            /\ ~(pc # "handler" /\ pc' = "handler")
            /\ ~(pc # "subscribe" /\ pc' = "subscribe")
            /\ nSub' = nSub
            /\ (pc # "return" /\ pc' = "return") =>
                   ret' \in {ErrChannelClosed, CtxErr}]_vars
    /\ MsgsClosed ~> (pc = "return")

C9_Witness ==
    /\ MsgsClosed
    /\ pc = "return"
    /\ ret = ErrChannelClosed
    /\ nRecv >= 1
    /\ ~ctxDone

\* C10: after a handler failure the loop goes back to waiting (it does not
\* return), and Consume never returns the handler's error.
C10_FailureKeepsLoopRunning ==
    /\ [](ret # HandlerErr)
    /\ [][(pc = "settle" /\ err = "fail" /\ pc' # pc) =>
            /\ pc' = "select"
            /\ ret' = NotReturned]_vars

C10_Witness ==
    /\ anyFail
    /\ nNack >= 1
    /\ pc = "handler"
    /\ ret = NotReturned

\* ------------------------------------------- a handler that always fails

\* err := handler(ctx, msg.Body) with a handler that returns an error on
\* every call
HandlerFails == HandlerReturn /\ err' = "fail"

PoisonNext ==
    \/ Arrive
    \/ Redeliver
    \/ ChannelClosed
    \/ Cancel
    \/ Subscribe
    \/ Receive
    \/ RecvClosed
    \/ HandlerFails
    \/ Settle
    \/ CtxDone

\* As FairSpec, and the broker delivers every ready message to the registered
\* consumer (no prefetch limit is set on the channel), and a loop with a
\* delivery waiting does not idle forever.
PoisonSpec ==
    /\ Init /\ [][PoisonNext]_vars
    /\ WF_vars(Subscribe)
    /\ WF_vars(HandlerFails)
    /\ WF_vars(Settle)
    /\ WF_vars(RecvClosed)
    /\ SF_vars(CtxDone)
    /\ WF_vars(Receive)
    /\ \A m \in Msgs : WF_vars(Push(m))

\* the loop no longer consumes: the channel is down or Consume has returned
Stopped == ~channelOpen \/ pc = "return"

\* C11: with a handler that always fails no message is ever dropped by the
\* broker; a nacked message is back in the queue (ready) until it is
\* delivered again; and every message that reached the queue has its handler
\* invoked again and again for as long as the loop is Running.
C11_PoisonRedeliveredForever ==
    /\ [](\A m \in Msgs :
            /\ queue[m] # "gone"
            /\ calls[m] # <<>> => queue[m] = "ready")
    /\ \A m \in Msgs :
         []<>(queue[m] = "none" \/ Stopped \/ (pc = "handler" /\ msg = m))

C11_Witness ==
    /\ ~Stopped /\ ~ctxDone
    /\ nNack = MaxCount
    /\ nDeliv = MaxCount
    /\ pc = "handler"
    /\ outcome[msg] = "none"

\* --------------------------------------------------- the connection registry

\* Nothing is connected and no Consume call is made.
ServerInit ==
    /\ queue = [m \in Msgs |-> "none"]
    /\ channelOpen = FALSE
    /\ subscribed = FALSE
    /\ noAck = FALSE
    /\ msgs = <<>>
    /\ ctxDone = FALSE
    /\ pc = "idle"
    /\ msg = NoMsg
    /\ err = "none"
    /\ ret = NotReturned
    /\ calls = [m \in Msgs |-> <<>>]
    /\ outcome = [m \in Msgs |-> "none"]
    /\ removedBy = [m \in Msgs |-> "none"]
    /\ inflight = {}
    /\ nDeliv = 0 /\ nRecv = 0 /\ nAck = 0 /\ nNack = 0 /\ nSub = 0
    /\ anyFail = FALSE
    /\ cancelledAt = "never"
    /\ conn = "none"
    /\ pg = "none"
    /\ ndcPc = "postgres" /\ opens = <<>>
    /\ registry = "none" /\ ndcErr = "none"
    /\ ReqInit
    /\ PubInit
    /\ AuxInit
    /\ cmd \in {"server", "migration"}
    /\ cmdPc = "connect" /\ srv = "none" /\ exitCode = "none"
    /\ closePc = "idle" /\ closeTried = <<>> /\ closeFailed = {} /\ errs = <<>>
    /\ closeRet = "none" /\ nClose = 0

\* the process has not exited
Alive == cmdPc # "exit"

\* pg, err := postgres.NewPostgresConnection(...); if err != nil { return nil, ... }
\* A failed open leaves no pool behind.
NdcOpenStore ==
    /\ ndcPc = "postgres"
    /\ \E ok \in BOOLEAN :
         /\ opens' = Append(opens, Opened("postgres", ok))
         /\ IF ok
            THEN /\ pg' = "open"
                 /\ ndcPc' = "rabbitmq"
                 /\ UNCHANGED <<registry, ndcErr>>
            ELSE /\ pg' = pg
                 /\ ndcPc' = "return"
                 /\ registry' = "nil"
                 /\ ndcErr' = "postgres"
    /\ UNCHANGED <<conn, cmdVars, closeVars, reqVars>>
    /\ UNCHANGED consumeVars
    /\ UNCHANGED pubVars
    /\ UNCHANGED auxVars

\* the store is left open when the broker fails
BrokerFailedLeak == pg

\* the half-built registry is handed back with the error
BrokerFailedPartial == "set"

\* if err != nil { pg.Close(); ... }: the store after the roll-back
BrokerFailedStore == "closed"

\* if err != nil { ...; return nil, fmt.Errorf(...) }: the registry returned
BrokerFailedRegistry == "nil"

\* rmq, err := rabbitmq.NewRabbitMQConnection(...): dial, then open a channel
\* (closing the connection again when that fails); on an error the store is
\* closed and nil is returned with the error.
NdcOpenBroker ==
    /\ ndcPc = "rabbitmq"
    /\ \E dialed, chan \in BOOLEAN :
         /\ opens' = Append(opens, Opened("rabbitmq", dialed /\ chan))
         /\ IF dialed /\ chan
            THEN /\ conn' = "open"
                 /\ channelOpen' = TRUE
                 /\ pg' = pg
                 /\ registry' = "set"
                 /\ ndcErr' = "nil"
            ELSE /\ conn' = IF dialed THEN "closed" ELSE conn
                 /\ channelOpen' = channelOpen
                 /\ pg' = BrokerFailedStore
                 /\ registry' = BrokerFailedRegistry
                 /\ ndcErr' = "rabbitmq"
    /\ ndcPc' = "return"
    /\ UNCHANGED <<queue, subscribed, noAck, msgs, ctxDone, removedBy, cancelledAt, nDeliv>>
    /\ UNCHANGED loopVars
    /\ UNCHANGED obsVars
    /\ UNCHANGED pubVars
    /\ UNCHANGED auxVars
    /\ UNCHANGED <<cmdVars, closeVars, reqVars>>

\* the return statement of NewDatabaseConnections is executed
NdcReturn ==
    /\ ndcPc = "return"
    /\ ndcPc' = "done"
    /\ UNCHANGED <<conn, pg, opens, registry, ndcErr, cmdVars, closeVars, reqVars>>
    /\ UNCHANGED consumeVars
    /\ UNCHANGED pubVars
    /\ UNCHANGED auxVars

\* ------------------------------------------------ DatabaseConnections.Close

\* a failed Close ends the function: the remaining backends are not closed
AfterBrokerCloseEarlyReturn(failed) == IF failed THEN "return" ELSE "postgres"

\* after the if around d.RabbitMQ.Close() comes the if around d.Postgres.Close()
AfterBrokerClose(failed) == "postgres"

\* if len(errs) > 0 { return fmt.Errorf("errors closing connections: %v", errs) }
\* return nil
CloseError(es) ==
    IF Len(es) > 0
    THEN [nil |-> FALSE, names |-> {es[i] : i \in 1..Len(es)}]
    ELSE [nil |-> TRUE, names |-> {}]

\* Close begins with the store
CloseEnterStoreFirst ==
    /\ closePc' = "postgres"
    /\ nClose' = nClose + 1
    /\ UNCHANGED <<closeTried, closeFailed, errs, closeRet>>

\* connections.Close() is entered
CloseEnter ==
    /\ closePc' = "rabbitmq"
    /\ nClose' = nClose + 1
    /\ UNCHANGED <<closeTried, closeFailed, errs, closeRet>>

\* if err := d.RabbitMQ.Close(); ...: RabbitMQClient.Close first calls
\* r.channel.Close(), dropping its result. Closing the channel ends its
\* deliveries as in ChannelClosed; the connection is still open.
CloseChannel ==
    /\ Alive
    /\ closePc = "rabbitmq"
    /\ closeTried' = Append(closeTried, "rabbitmq")
    /\ channelOpen' = FALSE
    /\ queue' = IF channelOpen THEN Requeued(queue) ELSE queue
    /\ msgs' = <<>>
    /\ closePc' = "rabbitmq_conn"
    /\ UNCHANGED <<conn, pg, ndcVars, cmdVars, closeFailed, errs, closeRet, nClose, reqVars>>
    /\ UNCHANGED <<subscribed, noAck, ctxDone, removedBy, cancelledAt, nDeliv>>
    /\ UNCHANGED loopVars
    /\ UNCHANGED obsVars
    /\ UNCHANGED pubVars
    /\ UNCHANGED auxVars

\* RabbitMQClient.Close then returns the result of r.conn.Close(), which is an
\* error on a connection that is already closed;
\* if err != nil { errs = append(errs, ...) }
CloseBroker ==
    /\ Alive
    /\ closePc = "rabbitmq_conn"
    /\ conn' = "closed"
    /\ \E failed \in BOOLEAN :
         /\ conn = "closed" => failed
         /\ closeFailed' = IF failed THEN closeFailed \cup {"rabbitmq"} ELSE closeFailed
         /\ errs' = IF failed THEN Append(errs, "rabbitmq") ELSE errs
         /\ closePc' = AfterBrokerClose(failed)
    /\ UNCHANGED <<pg, ndcVars, cmdVars, closeTried, closeRet, nClose, reqVars>>
    /\ UNCHANGED consumeVars
    /\ UNCHANGED pubVars
    /\ UNCHANGED auxVars

\* if err := d.Postgres.Close(); err != nil { errs = append(errs, ...) }
\* GormDB.Close reaches sqlDB.Close(), which releases the pool whatever it
\* returns (g.db.DB() succeeded when the connection was made).
CloseStore ==
    /\ Alive
    /\ closePc = "postgres"
    /\ closeTried' = Append(closeTried, "postgres")
    /\ pg' = "closed"
    /\ \E failed \in BOOLEAN :
         /\ closeFailed' = IF failed THEN closeFailed \cup {"postgres"} ELSE closeFailed
         /\ errs' = IF failed THEN Append(errs, "postgres") ELSE errs
    /\ closePc' = "return"
    /\ UNCHANGED <<conn, ndcVars, cmdVars, closeRet, nClose, reqVars>>
    /\ UNCHANGED consumeVars
    /\ UNCHANGED pubVars
    /\ UNCHANGED auxVars

\* the return statements of Close
CloseReturn ==
    /\ Alive
    /\ closePc = "return"
    /\ closeRet' = CloseError(errs)
    /\ closePc' = "done"
    /\ UNCHANGED <<conn, pg, ndcVars, cmdVars, closeTried, closeFailed, errs, nClose, reqVars>>
    /\ UNCHANGED consumeVars
    /\ UNCHANGED pubVars
    /\ UNCHANGED auxVars

\* ------------------------------------------------------------ the commands

\* an operation begins on backend b: it is remembered when Close was already
\* called on b
Use(b) ==
    usedClosed' = IF \E i \in 1..Len(closeTried) : closeTried[i] = b
                  THEN usedClosed \cup {b}
                  ELSE usedClosed

\* connections, err := infrastructure.NewDatabaseConnections(cfg, log)
\* if err != nil { log.Fatal(...) }: Fatal ends the process. Otherwise Close is
\* deferred and runServer starts the HTTP server in a goroutine (NewServer
\* returns no error), runMigration goes on to the migrations.
CmdConnected ==
    /\ Alive
    /\ cmdPc = "connect"
    /\ ndcPc = "done"
    /\ IF ndcErr # "nil"
       THEN cmdPc' = "exit" /\ exitCode' = "1" /\ srv' = srv
       ELSE /\ exitCode' = exitCode
            /\ IF cmd = "server"
               THEN cmdPc' = "wait" /\ srv' = "starting"
               ELSE cmdPc' = "migrate" /\ srv' = srv
    /\ UNCHANGED <<cmd, conn, pg, ndcVars, closeVars, reqVars>>
    /\ UNCHANGED consumeVars
    /\ UNCHANGED pubVars
    /\ UNCHANGED auxVars

\* server.Start() is listening
SrvListen ==
    /\ Alive
    /\ srv = "starting"
    /\ srv' = "listening"
    /\ UNCHANGED <<cmd, cmdPc, exitCode, conn, pg, ndcVars, closeVars, reqVars>>
    /\ UNCHANGED consumeVars
    /\ UNCHANGED pubVars
    /\ UNCHANGED auxVars

\* if err := server.Start(); err != nil { log.Fatal(...) }: the listener
\* could not be opened
SrvStartFails ==
    /\ Alive
    /\ srv = "starting"
    /\ srv' = "closed"
    /\ cmdPc' = "exit"
    /\ exitCode' = "1"
    /\ UNCHANGED <<cmd, conn, pg, ndcVars, closeVars, reqVars>>
    /\ UNCHANGED consumeVars
    /\ UNCHANGED pubVars
    /\ UNCHANGED auxVars

\* <-quit; server.Shutdown(ctx) is called: the listener is closed
Signal ==
    /\ Alive
    /\ cmdPc = "wait"
    /\ cmdPc' = "shutdown"
    /\ srv' = "draining"
    /\ UNCHANGED <<cmd, exitCode, conn, pg, ndcVars, closeVars, reqVars>>
    /\ UNCHANGED consumeVars
    /\ UNCHANGED pubVars
    /\ UNCHANGED auxVars

\* Once Shutdown was called server.Start() returns http.ErrServerClosed in the
\* goroutine, which is not nil: log.Fatal ends the process wherever the main
\* goroutine is.
SrvStartReturns ==
    /\ Alive
    /\ cmd = "server"
    /\ srv \in {"draining", "closed"}
    /\ cmdPc' = "exit"
    /\ exitCode' = "1"
    /\ UNCHANGED <<cmd, srv, conn, pg, ndcVars, closeVars, reqVars>>
    /\ UNCHANGED consumeVars
    /\ UNCHANGED pubVars
    /\ UNCHANGED auxVars

\* the command returns an error and its deferred Close runs
ShutdownFailsReturns ==
    /\ Alive
    /\ cmdPc = "shutdown"
    /\ cmdPc' = "closing_err"
    /\ srv' = "closed"
    /\ closePc' = "rabbitmq"
    /\ nClose' = nClose + 1
    /\ UNCHANGED <<closeTried, closeFailed, errs, closeRet>>
    /\ UNCHANGED <<cmd, exitCode, conn, pg, ndcVars, reqVars>>
    /\ UNCHANGED consumeVars
    /\ UNCHANGED pubVars
    /\ UNCHANGED auxVars

\* server.Shutdown(ctx) returned nil, which it does when no request is being
\* served; runServer returns nil and the deferred connections.Close() runs.
ShutdownDone ==
    /\ Alive
    /\ cmdPc = "shutdown"
    /\ \A r \in Reqs : req[r] = "idle"
    /\ cmdPc' = "closing"
    /\ srv' = "closed"
    /\ CloseEnter
    /\ UNCHANGED <<cmd, exitCode, conn, pg, ndcVars, reqVars>>
    /\ UNCHANGED consumeVars
    /\ UNCHANGED pubVars
    /\ UNCHANGED auxVars

\* if err := server.Shutdown(ctx); err != nil { log.Fatal(...) }: the 30 s ran
\* out with requests being served, or the listener failed to close. Fatal ends
\* the process; the deferred Close does not run.
ShutdownFails ==
    /\ Alive
    /\ cmdPc = "shutdown"
    /\ cmdPc' = "exit"
    /\ exitCode' = "1"
    /\ UNCHANGED <<cmd, srv, conn, pg, ndcVars, closeVars, reqVars>>
    /\ UNCHANGED consumeVars
    /\ UNCHANGED pubVars
    /\ UNCHANGED auxVars

\* runDatabaseMigrations(connections, log): AutoMigrate on the store; the
\* command then returns its result and the deferred connections.Close() runs.
MigrateRun ==
    /\ Alive
    /\ cmdPc = "migrate"
    /\ Use("postgres")
    /\ \E ok \in BOOLEAN : cmdPc' = IF ok THEN "closing" ELSE "closing_err"
    /\ CloseEnter
    /\ UNCHANGED <<cmd, srv, exitCode, conn, pg, ndcVars, req, checks, probe, resp>>
    /\ UNCHANGED consumeVars
    /\ UNCHANGED pubVars
    /\ UNCHANGED auxVars

\* the deferred Close has returned and the command's result ends the process
CmdExit ==
    /\ Alive
    /\ cmdPc \in {"closing", "closing_err"}
    /\ closePc = "done"
    /\ cmdPc' = "exit"
    /\ exitCode' = IF cmdPc = "closing" THEN "0" ELSE "1"
    /\ UNCHANGED <<cmd, srv, conn, pg, ndcVars, closeVars, reqVars>>
    /\ UNCHANGED consumeVars
    /\ UNCHANGED pubVars
    /\ UNCHANGED auxVars

\* the broker connection is lost
ConnLost ==
    /\ Alive
    /\ conn = "open"
    /\ conn' = "closed"
    /\ channelOpen' = FALSE
    /\ queue' = IF channelOpen THEN Requeued(queue) ELSE queue
    /\ msgs' = <<>>
    /\ UNCHANGED <<pg, ndcVars, cmdVars, closeVars, reqVars>>
    /\ UNCHANGED <<subscribed, noAck, ctxDone, removedBy, cancelledAt, nDeliv>>
    /\ UNCHANGED loopVars
    /\ UNCHANGED obsVars
    /\ UNCHANGED pubVars
    /\ UNCHANGED auxVars

\* ------------------------------------------- HealthCheck and the Ready handler

StatusOK == 200
StatusServiceUnavailable == 503

\* the error a probe returns: nil when it succeeded
HealthEntry(result) == IF result = "ok" THEN "nil" ELSE "err"

\* the report is returned at the first failed probe
AfterStoreProbeAbort(result) == IF result = "ok" THEN "hc_rmq" ELSE "hc_ret"

\* checks["postgres"] = ... is followed by checks["rabbitmq"] = ...
AfterStoreProbe(result) == "hc_rmq"

\* the endpoint answers 200 whatever the checks say
ReadyCodeAlwaysOK(allHealthy) == StatusOK

\* httpStatus := http.StatusOK; if !allHealthy { httpStatus = http.StatusServiceUnavailable }
ReadyCode(allHealthy) == IF allHealthy THEN StatusOK ELSE StatusServiceUnavailable

\* status := "ready"; if !allHealthy { status = "not_ready" }
ReadyStatus(allHealthy) == IF allHealthy THEN "ready" ELSE "not_ready"

\* the keys of a report
Entries(cs) == {b \in Backends : cs[b] # "unset"}

\* for component, err := range checks { if err != nil { allHealthy = false ... } }
AllHealthy(cs) == \A b \in Entries(cs) : cs[b] = "nil"

\* responseChecks[component] = {"status": "unhealthy" | "healthy", ...}
ResponseChecks(cs) ==
    [b \in Entries(cs) |-> IF cs[b] # "nil" THEN "unhealthy" ELSE "healthy"]

\* GET /api/v1/health/ready is accepted: Ready calls h.connections.HealthCheck(ctx),
\* which makes an empty map
ReqReady(r) ==
    /\ Alive
    /\ srv = "listening"
    /\ req[r] = "idle"
    /\ req' = [req EXCEPT ![r] = "hc_pg"]
    /\ checks' = [checks EXCEPT ![r] = [b \in Backends |-> "unset"]]
    /\ probe' = [probe EXCEPT ![r] = [b \in Backends |-> "none"]]
    /\ resp' = [resp EXCEPT ![r] = NoResponse]
    /\ UNCHANGED <<usedClosed, conn, pg, ndcVars, cmdVars, closeVars>>
    /\ UNCHANGED consumeVars
    /\ UNCHANGED pubVars
    /\ UNCHANGED auxVars

\* checks["postgres"] = d.Postgres.HealthCheck(ctx): a ping with a timeout of
\* 3 s. On a closed pool it fails at once; otherwise it succeeds, fails, or
\* hangs.
HcProbeStore(r) ==
    /\ Alive
    /\ req[r] = "hc_pg"
    /\ Use("postgres")
    /\ \E o \in {"ok", "fail", "hang"} :
         /\ pg # "open" => o = "fail"
         /\ IF o = "hang"
            THEN /\ req' = [req EXCEPT ![r] = "hc_pg_wait"]
                 /\ UNCHANGED <<checks, probe>>
            ELSE /\ req' = [req EXCEPT ![r] = AfterStoreProbe(o)]
                 /\ probe' = [probe EXCEPT ![r]["postgres"] = o]
                 /\ checks' = [checks EXCEPT ![r]["postgres"] = HealthEntry(o)]
    /\ UNCHANGED <<resp, conn, pg, ndcVars, cmdVars, closeVars>>
    /\ UNCHANGED consumeVars
    /\ UNCHANGED pubVars
    /\ UNCHANGED auxVars

\* the hanging ping ends: it is answered late, or its context runs out
HcStoreReturns(r) ==
    /\ Alive
    /\ req[r] = "hc_pg_wait"
    /\ \E o \in {"ok", "fail"} :
         /\ req' = [req EXCEPT ![r] = AfterStoreProbe(o)]
         /\ probe' = [probe EXCEPT ![r]["postgres"] = o]
         /\ checks' = [checks EXCEPT ![r]["postgres"] = HealthEntry(o)]
    /\ UNCHANGED <<resp, usedClosed, conn, pg, ndcVars, cmdVars, closeVars>>
    /\ UNCHANGED consumeVars
    /\ UNCHANGED pubVars
    /\ UNCHANGED auxVars

\* RabbitMQClient.HealthCheck: an error when r.conn is nil or closed or
\* r.channel is nil, else nil; it does not block
BrokerProbe == IF conn = "open" THEN "ok" ELSE "fail"

\* checks["rabbitmq"] = d.RabbitMQ.HealthCheck(ctx)
HcProbeBroker(r) ==
    /\ Alive
    /\ req[r] = "hc_rmq"
    /\ Use("rabbitmq")
    /\ req' = [req EXCEPT ![r] = "hc_ret"]
    /\ probe' = [probe EXCEPT ![r]["rabbitmq"] = BrokerProbe]
    /\ checks' = [checks EXCEPT ![r]["rabbitmq"] = HealthEntry(BrokerProbe)]
    /\ UNCHANGED <<resp, conn, pg, ndcVars, cmdVars, closeVars>>
    /\ UNCHANGED consumeVars
    /\ UNCHANGED pubVars
    /\ UNCHANGED auxVars

\* HealthCheck has returned the map; Ready builds and writes the response
ReadyRespond(r) ==
    /\ Alive
    /\ req[r] = "hc_ret"
    /\ resp' = [resp EXCEPT ![r] =
                  [code |-> ReadyCode(AllHealthy(checks[r])),
                   status |-> ReadyStatus(AllHealthy(checks[r])),
                   checks |-> ResponseChecks(checks[r])]]
    /\ req' = [req EXCEPT ![r] = "idle"]
    /\ UNCHANGED <<checks, probe, usedClosed, conn, pg, ndcVars, cmdVars, closeVars>>
    /\ UNCHANGED consumeVars
    /\ UNCHANGED pubVars
    /\ UNCHANGED auxVars

\* a request of the user API is accepted
ReqQuery(r) ==
    /\ Alive
    /\ srv = "listening"
    /\ req[r] = "idle"
    /\ req' = [req EXCEPT ![r] = "query"]
    /\ UNCHANGED <<checks, probe, resp, usedClosed, conn, pg, ndcVars, cmdVars, closeVars>>
    /\ UNCHANGED consumeVars
    /\ UNCHANGED pubVars
    /\ UNCHANGED auxVars

\* its handler runs a query on the store and answers
QueryRun(r) ==
    /\ Alive
    /\ req[r] = "query"
    /\ Use("postgres")
    /\ req' = [req EXCEPT ![r] = "idle"]
    /\ UNCHANGED <<checks, probe, resp, conn, pg, ndcVars, cmdVars, closeVars>>
    /\ UNCHANGED consumeVars
    /\ UNCHANGED pubVars
    /\ UNCHANGED auxVars

\* the server or the migration command, from its start to the end of the process
ServerNext ==
    \/ NdcOpenStore
    \/ NdcOpenBroker
    \/ NdcReturn
    \/ CmdConnected
    \/ SrvListen
    \/ SrvStartFails
    \/ Signal
    \/ SrvStartReturns
    \/ ShutdownDone
    \/ ShutdownFails
    \/ MigrateRun
    \/ CloseChannel
    \/ CloseBroker
    \/ CloseStore
    \/ CloseReturn
    \/ CmdExit
    \/ ConnLost
    \/ \E r \in Reqs : ReqReady(r)
    \/ \E r \in Reqs : HcProbeStore(r)
    \/ \E r \in Reqs : HcStoreReturns(r)
    \/ \E r \in Reqs : HcProbeBroker(r)
    \/ \E r \in Reqs : ReadyRespond(r)
    \/ \E r \in Reqs : ReqQuery(r)
    \/ \E r \in Reqs : QueryRun(r)

ServerSpec == ServerInit /\ [][ServerNext]_vars

\* ------------------------------------------------ claims C12 to C14, C16 to C19

\* C12: when NewDatabaseConnections has opened the store and the broker then
\* fails to open, the store is closed by the time the error is returned.
C12_StoreClosedOnBrokerFailure ==
    (ndcPc \in {"return", "done"} /\ ndcErr = "rabbitmq") => pg = "closed"

C12_Witness ==
    /\ ndcPc = "done"
    /\ ndcErr = "rabbitmq"
    /\ opens = <<Opened("postgres", TRUE), Opened("rabbitmq", FALSE)>>
    /\ pg = "closed"

\* C13: NewDatabaseConnections opens the store before the broker and never
\* attempts the broker when the store failed; it returns a registry that is
\* not nil exactly when both opened, and with an error the registry is nil.
C13_StoreThenBroker ==
    /\ Len(opens) <= 2
    /\ Len(opens) >= 1 => opens[1].backend = "postgres"
    /\ Len(opens) >= 2 => opens[2].backend = "rabbitmq" /\ opens[1].ok
    /\ ndcPc \in {"return", "done"} =>
         /\ registry = "set" <=> (Len(opens) = 2 /\ opens[1].ok /\ opens[2].ok)
         /\ registry \in {"set", "nil"}
         /\ ndcErr # "nil" => registry = "nil"
         /\ ndcErr = "nil" <=> registry = "set"

C13_Witness ==
    /\ ndcPc = "done"
    /\ opens = <<Opened("postgres", FALSE)>>
    /\ registry = "nil"
    /\ ndcErr = "postgres"

\* C14: DatabaseConnections.Close attempts to close every backend even when an
\* earlier one fails, and returns an error that is not nil exactly when some
\* backend failed to close; the error names every backend that failed.
C14_CloseAllAndAggregate ==
    /\ closePc \in {"return", "done"} =>
         /\ Len(closeTried) = 2
         /\ {closeTried[i] : i \in 1..Len(closeTried)} = Backends
    /\ closePc = "done" =>
         /\ ~closeRet.nil <=> closeFailed # {}
         /\ closeRet.names = closeFailed

C14_Witness ==
    /\ closePc = "done"
    /\ closeTried = <<"rabbitmq", "postgres">>
    /\ closeFailed = {"rabbitmq"}
    /\ closeRet = [nil |-> FALSE, names |-> {"rabbitmq"}]
    /\ pg = "closed"

\* ------------------------------------------------------- shutdown and loops

\* A caller has the registry's consumer run one consumption loop
\* (GetMessageConsumer().Consume) in the serving process, which then shuts down
\* as runServer does.
ShutdownNext ==
    \/ Alive /\ Arrive
    \/ Alive /\ Deliver
    \/ Alive /\ ChannelClosed
    \/ Alive /\ Cancel
    \/ Alive /\ Subscribe
    \/ Alive /\ Receive
    \/ Alive /\ RecvClosed
    \/ Alive /\ HandlerReturn
    \/ Alive /\ Settle
    \/ Alive /\ CtxDone
    \/ Signal
    \/ SrvStartReturns
    \/ ShutdownDone
    \/ ShutdownFails
    \/ CloseChannel
    \/ CloseBroker
    \/ CloseStore
    \/ CloseReturn
    \/ CmdExit

ShutdownSpec == Init /\ [][ShutdownNext]_vars

\* a Consume call is Running: subscribed and not yet returned
ConsumeRunning == subscribed /\ pc \in {"select", "handler", "settle"}

\* Close has been called on the broker backend
BrokerCloseBegun == \E i \in 1..Len(closeTried) : closeTried[i] = "rabbitmq"

C16_HealthyNotDelayedByHung ==
    [][\A r \in Reqs :
         (req[r] = "hc_pg_wait" /\ req'[r] # "hc_pg_wait" /\ conn = "open")
             => checks[r]["rabbitmq"] # "unset"]_vars

\* C17: every report returned by HealthCheck has exactly one entry per backend
\* name; an entry is nil exactly when that backend's probe succeeded; a failed
\* probe is an error value in its entry and neither ends the report early nor
\* removes the other entry.
C17_ReportComplete ==
    \A r \in Reqs :
        /\ \A b \in Entries(checks[r]) : checks[r][b] = "nil" <=> probe[r][b] = "ok"
        /\ \A b \in Backends : probe[r][b] # "none" => b \in Entries(checks[r])
        /\ req[r] = "hc_ret" => Entries(checks[r]) = Backends

C17_Witness ==
    \E r \in Reqs :
        /\ req[r] = "hc_ret"
        /\ probe[r] = [postgres |-> "fail", rabbitmq |-> "ok"]
        /\ checks[r] = [postgres |-> "err", rabbitmq |-> "nil"]

\* C18: the readiness endpoint answers 200 "ready" exactly when every backend's
\* probe succeeded and 503 "not_ready" otherwise; its checks map has one entry
\* per backend name, "healthy" or "unhealthy" by that backend's own probe.
C18_ReadyReflectsReport ==
    \A r \in Reqs :
        resp[r].status # "none" =>
            /\ (\A b \in Backends : probe[r][b] = "ok")
                   => resp[r].code = StatusOK /\ resp[r].status = "ready"
            /\ (\E b \in Backends : probe[r][b] # "ok")
                   => resp[r].code = StatusServiceUnavailable /\ resp[r].status = "not_ready"
            /\ DOMAIN resp[r].checks = Backends
            /\ \A b \in Backends :
                   resp[r].checks[b] = IF probe[r][b] = "ok" THEN "healthy" ELSE "unhealthy"

C18_Witness ==
    \E r \in Reqs :
        /\ resp[r].status = "not_ready"
        /\ resp[r].code = StatusServiceUnavailable
        /\ resp[r].checks = [postgres |-> "healthy", rabbitmq |-> "unhealthy"]

Unmarshalable == NumMsgs + 1

\* the attempt is repeated until it succeeds
PublishResultRetry(ok) ==
    IF ok THEN [pc |-> "return", ret |-> "nil"] ELSE [pc |-> "publish", ret |-> "none"]

\* if err != nil { ...; return fmt.Errorf("failed to publish message: %w", err) }
\* ...; return nil
PublishResult(ok) == [pc |-> "return", ret |-> IF ok THEN "nil" ELSE ErrPublish]

\* Publish(ctx, exchange, routingKey, message) is called
PubCall(x) ==
    /\ pubPc = "idle"
    /\ nPub < MaxPublishes
    /\ nPub' = nPub + 1
    /\ pubMsg' = x
    /\ pubPc' = "marshal"
    /\ attempts' = 0
    /\ accepted' = FALSE
    /\ pubRet' = "none"
    /\ UNCHANGED <<conn, pg, ndcVars, cmdVars, closeVars, reqVars>>
    /\ UNCHANGED auxVars
    /\ UNCHANGED consumeVars

\* body, err := json.Marshal(message)
\* if err != nil { return fmt.Errorf("failed to marshal message: %w", err) }
PubMarshal ==
    /\ pubPc = "marshal"
    /\ IF pubMsg = Unmarshalable
       THEN pubPc' = "return" /\ pubRet' = ErrMarshal
       ELSE pubPc' = "publish" /\ pubRet' = pubRet
    /\ UNCHANGED <<pubMsg, attempts, accepted, nPub>>
    /\ UNCHANGED <<conn, pg, ndcVars, cmdVars, closeVars, reqVars>>
    /\ UNCHANGED auxVars
    /\ UNCHANGED consumeVars

\* err = r.channel.PublishWithContext(...): it fails on a closed channel and
\* may fail on an open one; when it succeeds the message is routed to the queue.
PubAttempt ==
    /\ pubPc = "publish"
    /\ attempts' = attempts + 1
    /\ \E ok \in BOOLEAN :
         /\ ok => channelOpen
         /\ accepted' = (accepted \/ ok)
         /\ queue' = IF ok /\ queue[pubMsg] \in {"none", "gone"}
                     THEN [queue EXCEPT ![pubMsg] = "ready"]
                     ELSE queue
         /\ pubPc' = PublishResult(ok).pc
         /\ pubRet' = PublishResult(ok).ret
    /\ UNCHANGED <<pubMsg, nPub>>
    /\ UNCHANGED <<conn, pg, ndcVars, cmdVars, closeVars, reqVars>>
    /\ UNCHANGED auxVars
    /\ UNCHANGED <<channelOpen, subscribed, noAck, msgs, ctxDone, removedBy, cancelledAt, nDeliv>>
    /\ UNCHANGED loopVars
    /\ UNCHANGED obsVars

\* Publish has returned
PubReturn ==
    /\ pubPc = "return"
    /\ pubPc' = "idle"
    /\ UNCHANGED <<pubMsg, attempts, accepted, pubRet, nPub>>
    /\ UNCHANGED <<conn, pg, ndcVars, cmdVars, closeVars, reqVars>>
    /\ UNCHANGED auxVars
    /\ UNCHANGED consumeVars

\* calls of Publish on a channel that may close
PublishNext ==
    \/ \E x \in Msgs \cup {Unmarshalable} : PubCall(x)
    \/ PubMarshal
    \/ PubAttempt
    \/ PubReturn
    \/ ChannelClosed

PublishSpec == Init /\ [][PublishNext]_vars

\* C20: a call of Publish makes at most one publish attempt on the channel and
\* never retries; it returns nil exactly when that one attempt succeeded, and
\* otherwise a wrapped error, after no attempt (marshal failure) or one.
C20_PublishAtMostOnce ==
    /\ attempts <= 1
    /\ pubRet # "none" =>
         /\ pubRet = "nil" <=> (attempts = 1 /\ accepted)
         /\ pubRet # "nil" => pubRet \in {ErrMarshal, ErrPublish}
         /\ pubRet = ErrMarshal <=> pubMsg = Unmarshalable
         /\ pubRet = ErrMarshal => attempts = 0
         /\ pubRet = ErrPublish => attempts = 1 /\ ~accepted

C20_Witness ==
    /\ pubPc = "idle"
    /\ pubRet = ErrPublish
    /\ attempts = 1
    /\ ~channelOpen
    /\ nPub = MaxPublishes

\* ------------------------------------------- two Consume calls on one client

\* msg.Ack(true): everything up to this delivery tag is acknowledged
AckMultipleOn == TRUE

\* msg.Ack(false) and msg.Nack(false, true): the multiple flag
AckMultiple == FALSE

\* the open deliveries of the channel a call with this tag settles
Covered(l, m, multiple) ==
    IF multiple
    THEN {d \in Loops \X QMsgs :
             tagOf[d[1]][d[2]] # NoTag /\ tagOf[d[1]][d[2]] <= tagOf[l][m]}
    ELSE {<<l, m>>}

\* The broker pushes a ready message of loop l's queue to loop l's consumer;
\* delivery tags are counted per channel. Each consumer has its own buffer, so
\* a delivery never waits for another consumer.
TPush(l, m) ==
    /\ tOpen
    /\ tq[l][m] = "ready"
    /\ nextTag <= MaxTag
    /\ tq' = [tq EXCEPT ![l][m] = "unacked"]
    /\ tagOf' = [tagOf EXCEPT ![l][m] = nextTag]
    /\ nextTag' = nextTag + 1
    /\ tbuf' = [tbuf EXCEPT ![l] = Append(@, m)]
    /\ UNCHANGED <<tOpen, tpc, tmsg, terr, ackedBy>>
    /\ UNCHANGED baseVars
    /\ UNCHANGED <<userVars, gormVars>>

\* the channel goes down: open deliveries return to their queues and every
\* call's msgs is closed
TChannelClosed ==
    /\ tOpen
    /\ tOpen' = FALSE
    /\ tq' = [l \in Loops |-> [m \in QMsgs |->
                IF tq[l][m] = "unacked" THEN "ready" ELSE tq[l][m]]]
    /\ tagOf' = [l \in Loops |-> [m \in QMsgs |-> NoTag]]
    /\ tbuf' = [l \in Loops |-> <<>>]
    /\ UNCHANGED <<tpc, tmsg, terr, nextTag, ackedBy>>
    /\ UNCHANGED baseVars
    /\ UNCHANGED <<userVars, gormVars>>

\* case msg, ok := <-msgs with ok: the handler is invoked
TReceive(l) ==
    /\ tpc[l] = "select"
    /\ tbuf[l] # <<>>
    /\ tmsg' = [tmsg EXCEPT ![l] = Head(tbuf[l])]
    /\ tbuf' = [tbuf EXCEPT ![l] = Tail(@)]
    /\ tpc' = [tpc EXCEPT ![l] = "handler"]
    /\ UNCHANGED <<tOpen, tq, terr, tagOf, nextTag, ackedBy>>
    /\ UNCHANGED baseVars
    /\ UNCHANGED <<userVars, gormVars>>

\* case msg, ok := <-msgs with !ok: return "message channel closed"
TRecvClosed(l) ==
    /\ tpc[l] = "select"
    /\ ~tOpen
    /\ tbuf[l] = <<>>
    /\ tpc' = [tpc EXCEPT ![l] = "return"]
    /\ UNCHANGED <<tOpen, tq, tbuf, tmsg, terr, tagOf, nextTag, ackedBy>>
    /\ UNCHANGED baseVars
    /\ UNCHANGED <<userVars, gormVars>>

\* err := handler(ctx, msg.Body) returns
THandlerReturn(l) ==
    /\ tpc[l] = "handler"
    /\ \E e \in {"nil", "fail"} : terr' = [terr EXCEPT ![l] = e]
    /\ tpc' = [tpc EXCEPT ![l] = "settle"]
    /\ UNCHANGED <<tOpen, tq, tbuf, tmsg, tagOf, nextTag, ackedBy>>
    /\ UNCHANGED baseVars
    /\ UNCHANGED <<userVars, gormVars>>

\* msg.Nack(false, true) or msg.Ack(false) on the shared channel: nothing
\* happens on a closed channel, a tag the channel does not know closes it,
\* and otherwise the covered deliveries are removed (Ack) or requeued (Nack).
TSettle(l) ==
    /\ tpc[l] = "settle"
    /\ IF ~tOpen
       THEN UNCHANGED <<tOpen, tq, tbuf, tagOf, ackedBy>>
       ELSE IF tagOf[l][tmsg[l]] = NoTag
       THEN /\ tOpen' = FALSE
            /\ tq' = [k \in Loops |-> [m \in QMsgs |->
                        IF tq[k][m] = "unacked" THEN "ready" ELSE tq[k][m]]]
            /\ tagOf' = [k \in Loops |-> [m \in QMsgs |-> NoTag]]
            /\ tbuf' = [k \in Loops |-> <<>>]
            /\ UNCHANGED ackedBy
       ELSE /\ tq' = [k \in Loops |-> [m \in QMsgs |->
                        IF <<k, m>> \in Covered(l, tmsg[l], AckMultiple)
                        THEN (IF terr[l] = "nil" THEN "gone" ELSE "ready")
                        ELSE tq[k][m]]]
            /\ tagOf' = [k \in Loops |-> [m \in QMsgs |->
                        IF <<k, m>> \in Covered(l, tmsg[l], AckMultiple)
                        THEN NoTag ELSE tagOf[k][m]]]
            /\ ackedBy' = [k \in Loops |-> [m \in QMsgs |->
                        IF <<k, m>> \in Covered(l, tmsg[l], AckMultiple) /\ terr[l] = "nil"
                        THEN l ELSE ackedBy[k][m]]]
            /\ UNCHANGED <<tOpen, tbuf>>
    /\ tpc' = [tpc EXCEPT ![l] = "select"]
    /\ tmsg' = [tmsg EXCEPT ![l] = NoMsg]
    /\ terr' = [terr EXCEPT ![l] = "none"]
    /\ UNCHANGED nextTag
    /\ UNCHANGED baseVars
    /\ UNCHANGED <<userVars, gormVars>>

TwoNext ==
    \/ \E l \in Loops, m \in QMsgs : TPush(l, m)
    \/ TChannelClosed
    \/ \E l \in Loops : TReceive(l)
    \/ \E l \in Loops : TRecvClosed(l)
    \/ \E l \in Loops : THandlerReturn(l)
    \/ \E l \in Loops : TSettle(l)

\* Loop 2 takes its steps and its handler returns; loop 1's handler may take
\* any time or never return.
TwoSpec ==
    /\ Init /\ [][TwoNext]_vars
    /\ WF_vars(TReceive(2))
    /\ WF_vars(THandlerReturn(2))
    /\ WF_vars(TSettle(2))

\* C21: two consumption loops on different queues progress independently.
\* Whatever loop 1's handler does (it may never return), every message
\* delivered to loop 2 is received, handled and settled by loop 2 unless the
\* channel goes down; and a message is only ever acknowledged by the loop of
\* its own queue.
C21_LoopsIndependent ==
    /\ [](\A l \in Loops, m \in QMsgs : ackedBy[l][m] \in {NoLoop, l})
    /\ [](\A l \in Loops, m \in QMsgs :
            tq[l][m] = "gone" <=> ackedBy[l][m] = l)
    /\ \A m \in QMsgs :
         (tagOf[2][m] # NoTag) ~> (tagOf[2][m] = NoTag)

C21_Witness ==
    /\ tpc[1] = "handler"
    /\ tOpen
    /\ \A m \in QMsgs : tq[2][m] = "gone" /\ ackedBy[2][m] = 2
    /\ tq[1][tmsg[1]] = "unacked"

\* ------------------------------------------------------------- CreateUser

StatusCreated == 201
StatusBadRequest == 400
StatusConflict == 409

\* the Codes of the domain errors
ErrInvalidUserEmail == "INVALID_EMAIL"
ErrUserAlreadyExists == "USER_ALREADY_EXISTS"
ErrFailedToCheckUserExistance == "FAILED_TO_CHECK_USER_EXISTENCE"
ErrFailedToCreateUser == "FAILED_TO_CREATE_USER"
ErrValidation == "VALIDATION_ERROR"

\* an address mail.ParseAddress rejects
InvalidEmail == NumEmails + 1

\* GormUserRepository.ExistsByEmail without a database error: count > 0
ExistsByEmail(e) == \E i \in 1..Len(stored) : stored[i] = e

\* if _, err := uc.userRepo.ExistsByEmail(ctx, request.Email); err != nil
\* the use case takes its "already exists" branch on the error alone
CheckRejects(exists, dbErr) == dbErr

\* switch { case errors.Is(err, ErrFailedToCheckUserExistance): ...; default: ErrFailedToCreateUser }
UseCaseError(repoErr) ==
    IF repoErr = ErrFailedToCheckUserExistance
    THEN ErrFailedToCheckUserExistance
    ELSE ErrFailedToCreateUser

\* UserHandler.CreateUser and handleError: 201, 409 for USER_ALREADY_EXISTS,
\* 400 for the other domain errors
HttpStatus(code) ==
    IF code = "nil" THEN StatusCreated
    ELSE IF code = ErrUserAlreadyExists THEN StatusConflict
    ELSE StatusBadRequest

\* CreateUser returns (nil or the error with this Code) and the handler answers
CuReturn(code) ==
    /\ cuRet' = code
    /\ cuStatus' = HttpStatus(code)
    /\ cuPc' = "done"

\* POST /api/v1/users with a body that passed binding and validation
CuCall(x) ==
    /\ cuPc = "idle"
    /\ nCreate < MaxCreates
    /\ nCreate' = nCreate + 1
    /\ cuEmail' = x
    /\ cuPc' = "parse"
    /\ cuRet' = "none"
    /\ cuStatus' = NoStatus
    /\ atCall' = stored
    /\ UNCHANGED stored
    /\ UNCHANGED baseVars
    /\ UNCHANGED <<twoVars, gormVars>>

\* if _, err := mail.ParseAddress(request.Email); err != nil { return ErrInvalidUserEmail }
CuParse ==
    /\ cuPc = "parse"
    /\ IF cuEmail = InvalidEmail
       THEN CuReturn(ErrInvalidUserEmail)
       ELSE cuPc' = "check" /\ UNCHANGED <<cuRet, cuStatus>>
    /\ UNCHANGED <<stored, cuEmail, atCall, nCreate>>
    /\ UNCHANGED baseVars
    /\ UNCHANGED <<twoVars, gormVars>>

\* if _, err := uc.userRepo.ExistsByEmail(...); err != nil { return ErrUserAlreadyExists }
CuCheck ==
    /\ cuPc = "check"
    /\ \E dbErr \in BOOLEAN :
         IF CheckRejects(ExistsByEmail(cuEmail), dbErr)
         THEN CuReturn(ErrUserAlreadyExists)
         ELSE cuPc' = "entity" /\ UNCHANGED <<cuRet, cuStatus>>
    /\ UNCHANGED <<stored, cuEmail, atCall, nCreate>>
    /\ UNCHANGED baseVars
    /\ UNCHANGED <<twoVars, gormVars>>

\* domainEntity, err := request.ToEntity(); if err != nil { return nil, err }
\* (the hash of the password follows)
CuEntity ==
    /\ cuPc = "entity"
    /\ \E ok \in BOOLEAN :
         IF ok
         THEN cuPc' = "create" /\ UNCHANGED <<cuRet, cuStatus>>
         ELSE CuReturn(ErrValidation)
    /\ UNCHANGED <<stored, cuEmail, atCall, nCreate>>
    /\ UNCHANGED baseVars
    /\ UNCHANGED <<twoVars, gormVars>>

\* createUser, err := uc.userRepo.Create(ctx, domainEntity): the repository
\* checks ExistsByEmail again (an error of the query, or the email is found),
\* then inserts the row, which may fail; the use case maps the error.
CuCreate ==
    /\ cuPc = "create"
    /\ \E dbErr, insertErr \in BOOLEAN :
         IF dbErr
         THEN CuReturn(UseCaseError(ErrFailedToCheckUserExistance)) /\ UNCHANGED stored
         ELSE IF ExistsByEmail(cuEmail)
         THEN CuReturn(UseCaseError(ErrUserAlreadyExists)) /\ UNCHANGED stored
         ELSE IF insertErr
         THEN CuReturn(UseCaseError("insert")) /\ UNCHANGED stored
         ELSE CuReturn("nil") /\ stored' = Append(stored, cuEmail)
    /\ UNCHANGED <<cuEmail, atCall, nCreate>>
    /\ UNCHANGED baseVars
    /\ UNCHANGED <<twoVars, gormVars>>

\* the request is over
CuDone ==
    /\ cuPc = "done"
    /\ cuPc' = "idle"
    /\ UNCHANGED <<stored, cuEmail, cuRet, cuStatus, atCall, nCreate>>
    /\ UNCHANGED baseVars
    /\ UNCHANGED <<twoVars, gormVars>>

UserNext ==
    \/ \E x \in Emails \cup {InvalidEmail} : CuCall(x)
    \/ CuParse
    \/ CuCheck
    \/ CuEntity
    \/ CuCreate
    \/ CuDone

UserSpec == Init /\ [][UserNext]_vars

\* C22: creating a user whose email already belongs to a stored user fails
\* with USER_ALREADY_EXISTS, answered as 409 Conflict, and leaves the stored
\* users unchanged; no two stored users ever share an email. (A request whose
\* other fields are rejected, or a failing database query, may fail otherwise.)
C22_DuplicateEmailConflict ==
    /\ (/\ cuPc = "done"
        /\ \E i \in 1..Len(atCall) : atCall[i] = cuEmail
        /\ cuRet \notin {ErrValidation, ErrFailedToCheckUserExistance}) =>
         /\ cuRet = ErrUserAlreadyExists
         /\ cuStatus = StatusConflict
         /\ stored = atCall
    /\ \A i, j \in 1..Len(stored) : stored[i] = stored[j] => i = j

\* ------------------------------------------------------ claims C23 to C30

\* the backend's Close has been called by DatabaseConnections.Close
CloseCalled(b) == \E i \in 1..Len(closeTried) : closeTried[i] = b

\* C23: DatabaseConnections.Close closes the backends in reverse creation
\* order: the broker's Close is called, and has returned, before the store's
\* Close is called.
C23_BrokerClosedBeforeStore ==
    /\ Len(closeTried) >= 1 => closeTried[1] = "rabbitmq"
    /\ Len(closeTried) >= 2 => closeTried[2] = "postgres"
    /\ CloseCalled("postgres") => CloseCalled("rabbitmq") /\ conn = "closed"
    /\ closePc = "rabbitmq" => ~CloseCalled("postgres")

C23_Witness ==
    /\ closePc = "postgres"
    /\ closeTried = <<"rabbitmq">>
    /\ opens = <<Opened("postgres", TRUE), Opened("rabbitmq", TRUE)>>
    /\ conn = "closed"
    /\ pg = "open"

\* A caller of the registry calls Close() while the process serves requests
ClClose ==
    /\ Alive
    /\ closePc = "idle"
    /\ CloseEnter
    /\ UNCHANGED <<conn, pg, ndcVars, cmdVars, reqVars>>
    /\ UNCHANGED consumeVars
    /\ UNCHANGED pubVars
    /\ UNCHANGED auxVars

\* The registry and its two clients as their callers may use them: readiness
\* checks, Close, and the broker closing the channel or the connection.
ClientNext ==
    \/ ClClose
    \/ CloseChannel
    \/ CloseBroker
    \/ CloseStore
    \/ CloseReturn
    \/ ChannelClosed
    \/ ConnLost
    \/ \E r \in Reqs : ReqReady(r)
    \/ \E r \in Reqs : HcProbeStore(r)
    \/ \E r \in Reqs : HcStoreReturns(r)
    \/ \E r \in Reqs : HcProbeBroker(r)
    \/ \E r \in Reqs : ReadyRespond(r)

ClientSpec == Init /\ [][ClientNext]_vars

\* C24: a health check made on a backend after its Close was initiated
\* returns a failure for that backend, for the store and for the broker.
C24_ProbeFailsAfterClose ==
    [][\A r \in Reqs :
         /\ (req[r] = "hc_rmq" /\ req'[r] # "hc_rmq" /\ CloseCalled("rabbitmq"))
                => probe'[r]["rabbitmq"] = "fail"
         /\ (req[r] = "hc_pg" /\ req'[r] \notin {"hc_pg", "hc_pg_wait"}
                /\ CloseCalled("postgres"))
                => probe'[r]["postgres"] = "fail"]_vars

\* C30: whenever RabbitMQClient.HealthCheck reports the broker healthy, the
\* connection and the channel used by Publish and Consume are both open.
C30_HealthyMeansChannelOpen ==
    [][\A r \in Reqs :
         (req[r] = "hc_rmq" /\ req'[r] = "hc_ret" /\ checks'[r]["rabbitmq"] = "nil")
             => (conn = "open" /\ channelOpen)]_vars

\* the states of a Consume call, in their order
Phase(p) ==
    IF p = "subscribe" THEN "Subscribing"
    ELSE IF p = "return" THEN "Stopped"
    ELSE IF ctxDone THEN "Draining" ELSE "Running"

\* C25: a Consume call only moves forward through Subscribing, Running,
\* Draining, Stopped. The handler is not invoked before the subscription
\* succeeded (a failed subscription returns an error with no handler
\* invocation), and after Consume has returned it makes no handler call, Ack
\* or Nack.
C25_ForwardOnly ==
    /\ [](pc = "subscribe" => nRecv = 0 /\ nAck = 0 /\ nNack = 0 /\ ~subscribed)
    /\ [](pc \in {"handler", "settle"} => subscribed)
    /\ []((pc # "subscribe" /\ ~subscribed) =>
            (pc = "return" /\ ret = ErrRegister /\ nRecv = 0))
    /\ [][/\ pc # "subscribe" => pc' # "subscribe"
          /\ Phase(pc) = "Draining" => Phase(pc)' \in {"Draining", "Stopped"}
          /\ pc = "return" =>
               /\ pc' = "return"
               /\ UNCHANGED <<ret, msg, err, nRecv, nAck, nNack, inflight>>]_vars

C25_Witness ==
    /\ pc = "return"
    /\ ret = ErrRegister
    /\ ~subscribed
    /\ nSub = 1
    /\ nRecv = 0
    /\ \E m \in Msgs : queue[m] = "ready"

\* C26: Consume never returns nil. It returns the context's error only when
\* it left through the cancellation branch; a failed subscription and a
\* closed delivery channel each return a different error.
C26_NeverReturnsNil ==
    /\ [](pc = "return" <=> ret # NotReturned)
    /\ [](pc = "return" => ret \in {ErrRegister, ErrChannelClosed, CtxErr} /\ ret # "nil")
    /\ [][(pc # "return" /\ pc' = "return") =>
            /\ ret' = CtxErr => (pc = "select" /\ ctxDone)
            /\ pc = "subscribe" => ret' = ErrRegister
            /\ ret' = ErrChannelClosed => (pc = "select" /\ MsgsClosed)
            /\ ret' = ErrRegister => pc = "subscribe"]_vars

C26_Witness ==
    /\ pc = "return"
    /\ ret = ErrChannelClosed
    /\ ctxDone
    /\ nRecv >= 1

\* ------------------------------------- RabbitMQClient.Close during Consume

\* One Consume call in its loop's goroutine with its broker, and another
\* goroutine that calls Close on the registry, which calls
\* RabbitMQClient.Close. The context stays live, so that the closed channel is
\* the loop's only way out.
CloseLoopNext ==
    \/ Arrive
    \/ Redeliver
    \/ Subscribe
    \/ Receive
    \/ RecvClosed
    \/ HandlerReturn
    \/ Settle
    \/ ClClose
    \/ CloseChannel
    \/ CloseBroker

\* The loop's goroutine keeps running (the handler terminates) and select
\* chooses uniformly among its ready cases; nothing is assumed of the caller
\* of Close.
CloseLoopSpec ==
    /\ Init /\ [][CloseLoopNext]_vars
    /\ WF_vars(Subscribe)
    /\ WF_vars(HandlerReturn)
    /\ WF_vars(Settle)
    /\ WF_vars(RecvClosed)

\* C27: when RabbitMQClient.Close is called while a Consume call is Running,
\* the call eventually returns a non-nil error. It does not block forever,
\* and it returns only after the acknowledgment call for a message that was
\* in flight has been made.
C27_CloseEndsConsume ==
    /\ (ConsumeRunning /\ BrokerCloseBegun) ~>
         (pc = "return" /\ ret = ErrChannelClosed)
    /\ [](pc = "return" => inflight = {} /\ msg = NoMsg)
    /\ [][(pc = "settle" /\ pc' # "settle" /\ msg \in Msgs) =>
            (msg \notin inflight' /\ Len(calls'[msg]) = Len(calls[msg]) + 1)]_vars

C27_Witness ==
    /\ pc = "return"
    /\ ret = ErrChannelClosed
    /\ BrokerCloseBegun
    /\ ~ctxDone
    /\ \E m \in Msgs :
         /\ outcome[m] = "ok"
         /\ calls[m] = <<Ack>>
         /\ queue[m] = "ready"

\* ------------------------------------------------------- NewGormConnection

\* the errors NewGormConnection wraps
ErrGormConnect == "failed to connect to postgres with GORM"
ErrGormSqlDB == "failed to get underlying sql.DB"
ErrGormPing == "failed to ping postgres"

\* what a call returns: the error ("nil" for none) and the pool of the *GormDB
\* handed to the caller (NoPool for a nil *GormDB)
GormResult(e, p) == [err |-> e, pool |-> p]

\* return nil, fmt.Errorf(...): the function has no deferred call but cancel()
\* and closes nothing on its way out
GormFail(e) ==
    /\ gRets' = Append(gRets, GormResult(e, NoPool))
    /\ gPc' = "return"
    /\ UNCHANGED <<gPools, gCur>>

\* NewGormConnection is called
GCall ==
    /\ gPc = "idle"
    /\ Len(gRets) < MaxConnects
    /\ gPc' = "open"
    /\ UNCHANGED <<gPools, gRets, gCur>>
    /\ UNCHANGED baseVars
    /\ UNCHANGED <<twoVars, userVars>>

\* db, err := gorm.Open(postgres.Open(dsn), gormConfig); a failed Open is taken
\* to leave no pool behind
GOpen ==
    /\ gPc = "open"
    /\ \E ok \in BOOLEAN :
         IF ok
         THEN /\ gPools' = Append(gPools, "open")
              /\ gCur' = Len(gPools) + 1
              /\ gPc' = "db"
              /\ UNCHANGED gRets
         ELSE GormFail(ErrGormConnect)
    /\ UNCHANGED baseVars
    /\ UNCHANGED <<twoVars, userVars>>

\* sqlDB, err := db.DB(), then the pool limits are set
GDb ==
    /\ gPc = "db"
    /\ \E ok \in BOOLEAN :
         IF ok
         THEN /\ gPc' = "ping"
              /\ UNCHANGED <<gPools, gRets, gCur>>
         ELSE GormFail(ErrGormSqlDB)
    /\ UNCHANGED baseVars
    /\ UNCHANGED <<twoVars, userVars>>

\* sqlDB.PingContext(ctx) under the 5 s timeout: an unreachable or silent
\* database makes it return an error; otherwise &GormDB{db: db} is returned
GPing ==
    /\ gPc = "ping"
    /\ \E ok \in BOOLEAN :
         IF ok
         THEN /\ gRets' = Append(gRets, GormResult("nil", gCur))
              /\ gPc' = "return"
              /\ UNCHANGED <<gPools, gCur>>
         ELSE GormFail(ErrGormPing)
    /\ UNCHANGED baseVars
    /\ UNCHANGED <<twoVars, userVars>>

\* the call has returned; its locals db and sqlDB are gone
GReturn ==
    /\ gPc = "return"
    /\ gPc' = "idle"
    /\ gCur' = NoPool
    /\ UNCHANGED <<gPools, gRets>>
    /\ UNCHANGED baseVars
    /\ UNCHANGED <<twoVars, userVars>>

\* GormDB.Close on a *GormDB the caller was given: sqlDB.Close()
GClose(k) ==
    /\ gPc = "idle"
    /\ gRets[k].pool # NoPool
    /\ gPools[gRets[k].pool] = "open"
    /\ gPools' = [gPools EXCEPT ![gRets[k].pool] = "closed"]
    /\ UNCHANGED <<gPc, gRets, gCur>>
    /\ UNCHANGED baseVars
    /\ UNCHANGED <<twoVars, userVars>>

GormNext ==
    \/ GCall
    \/ GOpen
    \/ GDb
    \/ GPing
    \/ GReturn
    \/ \E k \in 1..Len(gRets) : GClose(k)

GormSpec == Init /\ [][GormNext]_vars

\* C28: whenever NewGormConnection returns an error, no open pool remains:
\* the pool the call created, if any, has been closed.
C28_NoPoolLeftOnError ==
    (gPc = "return" /\ gRets[Len(gRets)].err # "nil") =>
        (gCur = NoPool \/ gPools[gCur] # "open")

\* C29: on every path by which the server command ends after
\* NewDatabaseConnections succeeded, Close has been invoked exactly once
\* before the process exits.
C29_CloseOnceOnEveryExit ==
    (cmd = "server" /\ ndcErr = "nil" /\ ~Alive) => (nClose = 1 /\ closePc = "done")

====
